---- MODULE Spec2Model ----
(***************************************************************************)
(* A model of the image morph editor of src/main.py: the correspondence   *)
(* list shared by the two canvases, the mouse handlers that edit it, the   *)
(* template loader, the piecewise-affine composite (update_morph,          *)
(* interpolate_image) and the frame sequence built by save_gif.            *)
(*                                                                         *)
(* Numbers.  A QPointF coordinate is a rational <<num, den>> in lowest     *)
(* terms (den > 0) that stands for the binary64 number nearest to it;      *)
(* get_widget_space_pos computes in binary64 as the code does.  The        *)
(* pixel-space coordinates of one composite are integers over a common     *)
(* denominator: the float32 rounding of the composite is not modelled.     *)
(* A raster is a function from pixel <<x, y>> to one 8-bit value: the      *)
(* three channels of the code are treated alike by every operation.        *)
(***************************************************************************)
EXTENDS Integers, Sequences, FiniteSets, TLC

(* ---------------- program constants ---------------- *)
WidgetSize == 400
GrabRadius == 10
MinPoints == 3
MinFrames == 2

(* ---------------- bounds of the model ---------------- *)
\* MaxPoints: a click adds a point to a list shorter than this (longer
\* lists come from templates).  MaxFrames: the most frames of a GIF.
\* ImgSide: the side of the raster, in pixels.
MaxPoints == 1
MaxFrames == 3
ImgSide == 2

\* Python's None, where the model holds an index or an object id.
None == -1


(* ---------------- exact rationals ---------------- *)
Abs(n) == IF n < 0 THEN -n ELSE n

RECURSIVE Gcd(_, _)
Gcd(a, b) == IF b = 0 THEN a ELSE Gcd(b, a % b)

Lcm(a, b) == (a * b) \div Gcd(a, b)

Rat(n, d) ==
    LET s == IF d < 0 THEN -1 ELSE 1
        g == Gcd(Abs(n), Abs(d))
    IN  <<(s * n) \div g, (s * d) \div g>>


\* astype(np.int32) of numpy: truncation toward zero.
Trunc(n, d) == IF n >= 0 THEN n \div d ELSE -((-n) \div d)

\* floor(n / d + 1/2) for d > 0.
RoundDiv(n, d) == (2 * n + d) \div (2 * d)

(* ---------------- binary64 arithmetic ---------------- *)
\* The coordinate <<n, d>> of a QPointF stands for the binary64 number
\* nearest to n / d, which is what the division of main.py 46-47 and
\* float(row) of main.py 365 give.  A binary64 number is kept as
\* [neg, m, e]: (-1)^neg * m * 2^e, with m a natural number written as the
\* sequence of its binary digits, least significant first (0 is <<>>).
Significand == 53

RECURSIVE Bits(_)
Bits(n) == IF n = 0 THEN <<>> ELSE <<n % 2>> \o Bits(n \div 2)

RECURSIVE BitsValue(_)
BitsValue(B) == IF B = <<>> THEN 0 ELSE Head(B) + 2 * BitsValue(Tail(B))

Zeros(k) == [j \in 1..k |-> 0]

\* B without its leading (most significant) zeros.
RECURSIVE Strip(_)
Strip(B) ==
    IF B # <<>> /\ B[Len(B)] = 0 THEN Strip(SubSeq(B, 1, Len(B) - 1)) ELSE B

RECURSIVE Increment(_)
Increment(B) ==
    IF B = <<>> THEN <<1>>
    ELSE IF Head(B) = 0 THEN <<1>> \o Tail(B)
    ELSE <<0>> \o Increment(Tail(B))

\* A + B + c
RECURSIVE BitsAdd(_, _, _)
BitsAdd(A, B, c) ==
    IF A = <<>> /\ B = <<>> THEN Bits(c)
    ELSE LET a == IF A = <<>> THEN 0 ELSE Head(A)
             b == IF B = <<>> THEN 0 ELSE Head(B)
         IN  <<(a + b + c) % 2>>
             \o BitsAdd(IF A = <<>> THEN A ELSE Tail(A),
                        IF B = <<>> THEN B ELSE Tail(B), (a + b + c) \div 2)

\* A - B - c for A >= B + c (leading zeros are left in)
RECURSIVE BitsSub(_, _, _)
BitsSub(A, B, c) ==
    IF A = <<>> THEN <<>>
    ELSE LET b == IF B = <<>> THEN 0 ELSE Head(B)
             v == Head(A) - b - c
         IN  <<v % 2>>
             \o BitsSub(Tail(A), IF B = <<>> THEN B ELSE Tail(B),
                        IF v < 0 THEN 1 ELSE 0)

\* A < B, for A and B without leading zeros
BitsLess(A, B) ==
    \/ Len(A) < Len(B)
    \/ /\ Len(A) = Len(B)
       /\ \E j \in 1..Len(A) :
             /\ A[j] < B[j]
             /\ \A k \in (j + 1)..Len(A) : A[k] = B[k]

\* B * w + c for a natural number w
RECURSIVE BitsMul(_, _, _)
BitsMul(B, w, c) ==
    IF B = <<>> THEN Bits(c)
    ELSE <<(Head(B) * w + c) % 2>>
         \o BitsMul(Tail(B), w, (Head(B) * w + c) \div 2)

\* Round to nearest, ties to even: the binary64 number nearest to
\* B * 2^e, or to a number above it by less than 2^e when sticky.
Round(neg, B, e, sticky) ==
    IF Len(B) <= Significand
    THEN [neg |-> neg, m |-> B, e |-> e]
    ELSE LET drop == Len(B) - Significand
             kept == SubSeq(B, drop + 1, Len(B))
             rest == sticky \/ \E j \in 1..(drop - 1) : B[j] = 1
             up == B[drop] = 1 /\ (rest \/ kept[1] = 1)
         IN  [neg |-> neg, m |-> IF up THEN Increment(kept) ELSE kept,
              e |-> e + drop]

\* The digits of r / d after those of acc, k of which are behind the
\* binary point, until the division ends or the significand is full.
RECURSIVE LongDiv(_, _, _, _)
LongDiv(r, d, acc, k) ==
    IF r = 0 \/ Len(acc) > Significand + 1
    THEN [q |-> acc, r |-> r, k |-> k]
    ELSE LongDiv((2 * r) % d, d,
                 IF acc = <<>> /\ 2 * r < d THEN acc
                 ELSE <<(2 * r) \div d>> \o acc,
                 k + 1)

\* The binary64 number nearest to n / d, d > 0.
Float(n, d) ==
    LET a == IF n < 0 THEN -n ELSE n
        D == LongDiv(a % d, d, Bits(a \div d), 0)
    IN  Round(n < 0, D.q, -D.k, D.r # 0)

\* f * w in binary64, for a natural number w.
FloatMul(f, w) == Round(f.neg, Strip(BitsMul(f.m, w, 0)), f.e, FALSE)

\* x + f in binary64, for a natural number x.
FloatAdd(x, f) ==
    LET e == IF f.e < 0 THEN f.e ELSE 0
        X == Strip(Zeros(-e) \o Bits(x))
        M == Zeros(f.e - e) \o f.m
    IN  IF ~f.neg THEN Round(FALSE, Strip(BitsAdd(X, M, 0)), e, FALSE)
        ELSE IF BitsLess(X, M) THEN Round(TRUE, Strip(BitsSub(M, X, 0)), e, FALSE)
        ELSE Round(FALSE, Strip(BitsSub(X, M, 0)), e, FALSE)

\* int(f) of Python: truncation toward zero.
FloatToInt(f) ==
    LET v == IF f.e >= 0 THEN BitsValue(Zeros(f.e) \o f.m)
             ELSE BitsValue(SubSeq(f.m, 1 - f.e, Len(f.m)))
    IN  IF f.neg THEN -v ELSE v

QPointF(x, y) == [x |-> x, y |-> y]

MorphPoint(s, t) == [source |-> s, target |-> t]

(* ---------------- plane geometry on integer numerators ---------------- *)
Cross(o, a, b) == (a[1] - o[1]) * (b[2] - o[2]) - (a[2] - o[2]) * (b[1] - o[1])

Collinear(a, b, c) == Cross(a, b, c) = 0

\* d lies strictly inside the circle through a, b, c (not collinear).
InCircle(a, b, c, d) ==
    LET ax == a[1] - d[1]  ay == a[2] - d[2]
        bx == b[1] - d[1]  by == b[2] - d[2]
        cx == c[1] - d[1]  cy == c[2] - d[2]
        a2 == ax * ax + ay * ay
        b2 == bx * bx + by * by
        c2 == cx * cx + cy * cy
        det == ax * (by * c2 - b2 * cy) - ay * (bx * c2 - b2 * cx)
               + a2 * (bx * cy - by * cx)
    IN  IF Cross(a, b, c) > 0 THEN det > 0 ELSE det < 0

\* The closed triangle a, b, c (a segment or a point when it has no area)
\* contains p.
InClosedTriangle(p, a, b, c) ==
    LET d1 == Cross(a, b, p)
        d2 == Cross(b, c, p)
        d3 == Cross(c, a, p)
        Between(u, v) == /\ (IF u[1] <= v[1] THEN u[1] <= p[1] /\ p[1] <= v[1]
                                             ELSE v[1] <= p[1] /\ p[1] <= u[1])
                         /\ (IF u[2] <= v[2] THEN u[2] <= p[2] /\ p[2] <= v[2]
                                             ELSE v[2] <= p[2] /\ p[2] <= u[2])
    IN  IF Cross(a, b, c) # 0
        THEN (d1 >= 0 /\ d2 >= 0 /\ d3 >= 0) \/ (d1 <= 0 /\ d2 <= 0 /\ d3 <= 0)
        ELSE \/ (d1 = 0 /\ Between(a, b))
             \/ (d2 = 0 /\ Between(b, c))
             \/ (d3 = 0 /\ Between(c, a))

\* Two triangles with area whose interiors meet: no edge of either one
\* separates them.
Separates(a, b, c, T) ==
    LET s == IF Cross(a, b, c) > 0 THEN 1 ELSE -1
    IN  \A i \in 1..3 : s * Cross(a, b, T[i]) <= 0

Overlap(A, B) ==
    ~ \/ Separates(A[1], A[2], A[3], B)
      \/ Separates(A[2], A[3], A[1], B)
      \/ Separates(A[3], A[1], A[2], B)
      \/ Separates(B[1], B[2], B[3], A)
      \/ Separates(B[2], B[3], B[1], A)
      \/ Separates(B[3], B[1], B[2], A)

(* ---------------- rasters ---------------- *)
\* Every raster of the model is ImgSide x ImgSide (image.shape[:2]).
Width == ImgSide
Height == ImgSide
Pixels == (0..(Width - 1)) \X (0..(Height - 1))

\* np.zeros_like(image)
ZerosLike == [p \in Pixels |-> 0]

\* The files a user can open in load_image: a gradient without a zero
\* pixel, and a raster with a black corner (the second one in a morph
\* session only).
ImageA == [p \in Pixels |-> 10 + 20 * p[1] + 50 * p[2]]
ImageB == [p \in Pixels |-> IF p = <<0, 0>> THEN 0 ELSE 200 - 30 * p[1] - 60 * p[2]]
EditImages == {ImageA}
ImageFiles == {ImageA, ImageB}

(* ---------------- pixel-space layouts ---------------- *)
RECURSIVE LcmOfDens(_)
LcmOfDens(pts) ==
    IF pts = <<>> THEN 1
    ELSE LET p == Head(pts)
         IN  Lcm(Lcm(Lcm(p.source.x[2], p.source.y[2]),
                     Lcm(p.target.x[2], p.target.y[2])),
                 LcmOfDens(Tail(pts)))

\* normalized * (width, height), as a numerator over the denominator L.
ToPixel(q, L) == <<q.x[1] * Width * (L \div q.x[2]), q.y[1] * Height * (L \div q.y[2])>>

\* source_points, target_points (main.py 324-327, 397-398) over L.
SourcePoints(pts, L) == [i \in 1..Len(pts) |-> ToPixel(pts[i].source, L)]
TargetPoints(pts, L) == [i \in 1..Len(pts) |-> ToPixel(pts[i].target, L)]

\* inter_points = (1 - t) * source_points + t * target_points for
\* t = tn / td, over the denominator L * td.
InterPoints(pts, L, tn, td) ==
    [i \in 1..Len(pts) |->
        LET s == ToPixel(pts[i].source, L)
            g == ToPixel(pts[i].target, L)
        IN  <<(td - tn) * s[1] + tn * g[1], (td - tn) * s[2] + tn * g[2]>>]

Scale(P, k) == [i \in 1..Len(P) |-> <<k * P[i][1], k * P[i][2]>>]

(* ---------------- scipy.spatial.Delaunay ---------------- *)
\* Qhull raises (QhullError, ValueError) on fewer than three points and on
\* a point set without three points that are not collinear.
DelaunayRaises(P) ==
    \/ Len(P) < MinPoints
    \/ \A i, j, k \in 1..Len(P) : Collinear(P[i], P[j], P[k])

\* Coincident points: only the first of them is a vertex.
Vertices(P) == {i \in 1..Len(P) : \A j \in 1..(i - 1) : P[j] # P[i]}

EmptyCircle(P) ==
    {t \in Vertices(P) \X Vertices(P) \X Vertices(P) :
        /\ t[1] < t[2] /\ t[2] < t[3]
        /\ ~Collinear(P[t[1]], P[t[2]], P[t[3]])
        /\ \A l \in Vertices(P) \ {t[1], t[2], t[3]} :
              ~InCircle(P[t[1]], P[t[2]], P[t[3]], P[l])}

Corners(P, t) == <<P[t[1]], P[t[2]], P[t[3]]>>

RECURSIVE Area2(_, _)
Area2(P, T) ==
    IF T = {} THEN 0
    ELSE LET t == CHOOSE u \in T : TRUE
         IN  Abs(Cross(P[t[1]], P[t[2]], P[t[3]])) + Area2(P, T \ {t})

Disjoint(P, T) ==
    \A t, u \in T : t # u => ~Overlap(Corners(P, t), Corners(P, u))

\* The triangles of the triangulation: the empty-circle triangles, and
\* when four or more points lie on one circle (so that these overlap) one
\* largest family of them without overlap.
Triangulation(P) ==
    LET C == EmptyCircle(P)
    IN  IF Disjoint(P, C) THEN C
        ELSE CHOOSE T \in SUBSET C :
                /\ Disjoint(P, T)
                /\ \A U \in SUBSET C : Disjoint(P, U) => Area2(P, U) <= Area2(P, T)

LexLess(t, u) ==
    \/ t[1] < u[1]
    \/ (t[1] = u[1] /\ t[2] < u[2])
    \/ (t[1] = u[1] /\ t[2] = u[2] /\ t[3] < u[3])

RECURSIVE SortTriangles(_)
SortTriangles(T) ==
    IF T = {} THEN <<>>
    ELSE LET m == CHOOSE t \in T : \A u \in T \ {t} : LexLess(t, u)
         IN  <<m>> \o SortTriangles(T \ {m})

\* tri.simplices, in index order.
Simplices(P) == SortTriangles(Triangulation(P))

(* ---------------- cv2.warpAffine(getAffineTransform) ---------------- *)
Pix(img, x, y) == IF <<x, y>> \in Pixels THEN img[<<x, y>>] ELSE 0

\* Bilinear sample of img at (u32 / 32, v32 / 32), border value 0.
Bilinear(img, u32, v32) ==
    LET x0 == u32 \div 32   a == u32 % 32
        y0 == v32 \div 32   b == v32 % 32
    IN  ( (32 - a) * (32 - b) * Pix(img, x0, y0)
        + a * (32 - b) * Pix(img, x0 + 1, y0)
        + (32 - a) * b * Pix(img, x0, y0 + 1)
        + a * b * Pix(img, x0 + 1, y0 + 1) + 512 ) \div 1024

\* warped = warpAffine(img, getAffineTransform(src_tri, dst_tri)): each
\* destination pixel samples img at its preimage, found to 1/32 pixel.
\* A transform that cannot be inverted (a source or a destination triangle
\* without area) makes OpenCV use the zero matrix: every pixel samples
\* img at (0, 0).
WarpAffine(img, S, D, L) ==
    LET det == Cross(D[1], D[2], D[3])
        sg == IF det < 0 THEN -1 ELSE 1
        den == sg * det * L
        Pre(p, c) ==
            LET q == <<p[1] * L, p[2] * L>>
                nb == Cross(D[1], q, D[3])
                nc == Cross(D[1], D[2], q)
            IN  sg * (S[1][c] * det + nb * (S[2][c] - S[1][c]) + nc * (S[3][c] - S[1][c]))
    IN  [p \in Pixels |->
            IF det = 0 \/ Cross(S[1], S[2], S[3]) = 0
            THEN img[<<0, 0>>]
            ELSE Bilinear(img, RoundDiv(32 * Pre(p, 1), den), RoundDiv(32 * Pre(p, 2), den))]

(* ---------------- cv2.fillConvexPoly ---------------- *)
\* The mask of dst_tri.astype(np.int32): the pixels of the closed triangle
\* with the truncated vertices.  OpenCV also draws the outline and rounds
\* the ends of a scan line, which can add a pixel beside an edge that
\* passes half way between two pixels; that is not modelled.
FillConvexPoly(D, L) ==
    LET I == [i \in 1..3 |-> <<Trunc(D[i][1], L), Trunc(D[i][2], L)>>]
    IN  {p \in Pixels : InClosedTriangle(p, I[1], I[2], I[3])}

(* ---------------- the composite loop ---------------- *)
\* One pass of the loop body (main.py 334-344, 405-411):
\* morphed = morphed * (1 - mask) + warped * mask.
PaintTriangle(morphed, img, S, D, L) ==
    LET warped == WarpAffine(img, S, D, L)
        mask == FillConvexPoly(D, L)
    IN  [p \in Pixels |-> IF p \in mask THEN warped[p] ELSE morphed[p]]

RECURSIVE Composite(_, _, _, _, _, _)
Composite(morphed, img, tris, SP, DP, L) ==
    IF tris = <<>> THEN morphed
    ELSE Composite(PaintTriangle(morphed, img, Corners(SP, Head(tris)),
                                 Corners(DP, Head(tris)), L),
                   img, Tail(tris), SP, DP, L)

(* ======================= the state ======================= *)
VARIABLES
    lists,           \* the list objects: list id -> sequence of MorphPoint
    points,          \* points[c]: the list object canvas c holds (ImageCanvas.points)
    selected_point,  \* selected_point[c]: None or a 0-based index
    dragging,        \* dragging[c]
    heap,            \* the raster objects: buffer id -> raster
    source_image,    \* MorphEditor.source_image: None or a buffer id
    target_image,    \* MorphEditor.target_image: None or a buffer id
    image,           \* image[c]: ImageCanvas.image, None or a buffer id
    pixmap,          \* pixmap[c]: the label of canvas c has been given a pixmap
                     \* (QLabel.pixmap() is a null pixmap until setPixmap)
    pc,              \* "idle", "gif" (inside the loop of save_gif), "dialog"
                     \* (the file dialog is open), "save" (inside line 392)
    num_frames,      \* save_gif's locals, while it runs
    loop,
    i,
    images,          \* save_gif's list; an entry names its buffer, with the blend
                     \* factor it was computed at, the number of points handed
                     \* to Delaunay and how the computation ended
    gif_exit         \* how the latest step left save_gif: "none" (it did not),
                     \* "cancelled", "returned", or raised: "raised_at_start"
                     \* (main.py 376), "raised_in_loop", "raised_at_save"
                     \* (main.py 393)

vars == <<lists, points, selected_point, dragging, heap, source_image, target_image,
          image, pixmap, pc, num_frames, loop, i, images, gif_exit>>

editVars == <<lists, points, selected_point, dragging>>
rasterVars == <<heap, source_image, target_image, image, pixmap>>

Canvases == {"source", "target"}
is_target(c) == c = "target"

\* The correspondence list both canvases read.
Points == lists[points["source"]]

(* ---------------- raster objects ---------------- *)
\* An id no live raster has: a new object.
NewBuf(h) == CHOOSE n \in 1..(Cardinality(DOMAIN h) + 1) : n \notin DOMAIN h

Alloc(h, raster) == [n \in DOMAIN h \cup {NewBuf(h)} |->
                        IF n \in DOMAIN h THEN h[n] ELSE raster]

\* The rasters after a step: those still referenced, their ids renumbered in
\* the order source_image, target_image, the canvases, the frames (object
\* identity is kept; the numbers carry no meaning).
SetRasters(h, si, ti, im, fr) ==
    LET R == <<si, ti, im["source"], im["target"]>> \o [j \in 1..Len(fr) |-> fr[j].buf]
        First(b) == CHOOSE j \in 1..Len(R) : R[j] = b /\ \A k \in 1..(j - 1) : R[k] # b
        Canon(b) == IF b = None THEN None
                    ELSE Cardinality({R[k] : k \in 1..First(b)} \ {None})
        live == {R[j] : j \in 1..Len(R)} \ {None}
    IN  /\ heap' = [n \in {Canon(b) : b \in live} |->
                       h[CHOOSE b \in live : Canon(b) = n]]
        /\ source_image' = Canon(si)
        /\ target_image' = Canon(ti)
        /\ image' = [c \in Canvases |-> Canon(im[c])]
        /\ images' = [j \in 1..Len(fr) |-> [fr[j] EXCEPT !.buf = Canon(fr[j].buf)]]

(* ---------------- ImageCanvas: coordinate conversion ---------------- *)
\* update_display (main.py 102-149) on a canvas that holds an image or
\* not, whose label has a pixmap or not (pm) and whose list is pts.  Every
\* point is drawn through get_widget_space_pos (main.py 121, 145), which
\* goes through get_image_rect: with the null pixmap of a label that was
\* never given one, line 79 divides 0 by 0 and raises ZeroDivisionError
\* before setPixmap (main.py 149) is reached.
update_display(hasImage, pm, pts) ==
    IF ~hasImage THEN [pixmap |-> pm, raised |-> FALSE]
    ELSE IF pts # <<>> /\ ~pm THEN [pixmap |-> pm, raised |-> TRUE]
    ELSE [pixmap |-> TRUE, raised |-> FALSE]

\* get_image_space_pos and get_widget_space_pos raise on canvas c: the
\* canvas has an image, so the guard of lines 38 and 57 lets them through
\* (QLabel.pixmap() is never None), and get_image_rect divides 0 by 0.
PosRaises(c) == image[c] # None /\ ~pixmap[c]

\* update_display scales the pixmap to the widget (KeepAspectRatio).
PixmapSize ==
    IF Width >= Height THEN <<WidgetSize, (WidgetSize * Height) \div Width>>
    ELSE <<(WidgetSize * Width) \div Height, WidgetSize>>

get_image_rect ==
    LET pw == PixmapSize[1]  ph == PixmapSize[2]
    IN  IF WidgetSize * ph > WidgetSize * pw
        THEN LET w == (WidgetSize * pw) \div ph
             IN  [x |-> (WidgetSize - w) \div 2, y |-> 0, w |-> w, h |-> WidgetSize]
        ELSE LET h == (WidgetSize * ph) \div pw
             IN  [x |-> 0, y |-> (WidgetSize - h) \div 2, w |-> WidgetSize, h |-> h]

\* max(0, min(1, x))
Clamp01(r) == IF r[1] < 0 THEN <<0, 1>> ELSE IF r[1] > r[2] THEN <<1, 1>> ELSE r

\* None stands for the ZeroDivisionError of PosRaises.
get_image_space_pos(c, wp) ==
    IF image[c] = None THEN QPointF(<<0, 1>>, <<0, 1>>)
    ELSE IF PosRaises(c) THEN None
    ELSE IF get_image_rect.w <= 0 \/ get_image_rect.h <= 0
    THEN QPointF(<<0, 1>>, <<0, 1>>)
    ELSE QPointF(Clamp01(Rat(wp[1] - get_image_rect.x, get_image_rect.w)),
                 Clamp01(Rat(wp[2] - get_image_rect.y, get_image_rect.h)))

get_widget_space_pos(c, q) ==
    IF image[c] = None THEN <<0, 0>>
    ELSE IF PosRaises(c) THEN None
    ELSE IF get_image_rect.w <= 0 \/ get_image_rect.h <= 0
    THEN <<0, 0>>
    ELSE <<FloatToInt(FloatAdd(get_image_rect.x,
                               FloatMul(Float(q.x[1], q.x[2]), get_image_rect.w))),
           FloatToInt(FloatAdd(get_image_rect.y,
                               FloatMul(Float(q.y[1], q.y[2]), get_image_rect.h)))>>

manhattanLength(a, b) == Abs(a[1] - b[1]) + Abs(a[2] - b[2])

\* The 0-based indices of the points drawn within the grab radius of wp.
Near(c, pts, wp, useTarget) ==
    {k \in 0..(Len(pts) - 1) :
        manhattanLength(wp, get_widget_space_pos(c,
            IF useTarget THEN pts[k + 1].target ELSE pts[k + 1].source)) < GrabRadius}

Min(S) == CHOOSE m \in S : \A n \in S : m <= n

\* list.pop(k), k 0-based
Pop(s, k) == [j \in 1..(Len(s) - 1) |-> IF j <= k THEN s[j] ELSE s[j + 1]]

(* ---------------- MorphEditor: the morph ---------------- *)
\* The composite of update_morph (main.py 330-344): the running buffer is
\* a copy of the source image, the destination layout the target points.
MorphedRaster(pts, img) ==
    LET L == LcmOfDens(pts)
        SP == SourcePoints(pts, L)
    IN  Composite(img, img, Simplices(SP), SP, TargetPoints(pts, L), L)

\* The composite of interpolate_image (main.py 400-412) at t = tn / td: the
\* running buffer is np.zeros_like, the destination layout inter_points.
InterpolatedRaster(pts, img, tn, td) ==
    LET L == LcmOfDens(pts)
        SP == SourcePoints(pts, L)
    IN  Composite(ZerosLike, img, Simplices(SP), Scale(SP, td),
                  InterPoints(pts, L, tn, td), L * td)

\* The triangles a composite over pts goes through (0 when Delaunay raises).
NumTriangles(pts) ==
    LET SP == SourcePoints(pts, LcmOfDens(pts))
    IN  IF DelaunayRaises(SP) THEN 0 ELSE Len(Simplices(SP))

\* update_morph (main.py 317-348).  fault = k > 0: a library call raises
\* while the k-th triangle is processed.  shown: target_canvas.set_image
\* was reached, with the raster out.  delaunay: the number of points handed
\* to Delaunay, None when it is not called.
update_morph(pts, fault) ==
    IF source_image = None \/ Len(pts) < MinPoints
    THEN [delaunay |-> None, shown |-> FALSE, out |-> ZerosLike]
    ELSE IF DelaunayRaises(SourcePoints(pts, LcmOfDens(pts))) \/ fault > 0
         THEN [delaunay |-> Len(pts), shown |-> FALSE, out |-> ZerosLike]
         ELSE [delaunay |-> Len(pts), shown |-> TRUE,
               out |-> MorphedRaster(pts, heap[source_image])]

\* A handler that lets the exception through.
ExceptionPropagates == FALSE

\* except Exception (main.py 413): whatever is raised inside the try block
\* of interpolate_image is caught there.
ExceptionCaught == TRUE

\* The value of the except branch of interpolate_image (main.py 415).
ExceptReturn(src) == src

\* interpolate_image (main.py 395-415).  raised: the except branch ran.
interpolate_image(pts, tn, td, fault) ==
    IF DelaunayRaises(SourcePoints(pts, LcmOfDens(pts))) \/ fault > 0
    THEN [delaunay |-> Len(pts), raised |-> TRUE, raster |-> ZerosLike]
    ELSE [delaunay |-> Len(pts), raised |-> FALSE,
          raster |-> InterpolatedRaster(pts, heap[image["source"]], tn, td)]

\* A blend factor that divides by the number of frames.
FrameTOverN(k, n) == <<k, n>>

\* t = i / (num_frames - 1) (main.py 383), as <<numerator, denominator>>.
FrameT(k, n) == <<k, n - 1>>

\* images[::-1]
Reverse(s) == [j \in 1..Len(s) |-> s[Len(s) + 1 - j]]

\* update_morph run on pts, as part of a step.  set_image (main.py 97-100)
\* ends with update_display; what that raises is caught at main.py 347.
ApplyUpdateMorph(pts, fault) ==
    LET r == update_morph(pts, fault)
    IN  IF ~r.shown
        THEN UNCHANGED <<rasterVars, images>>
        ELSE /\ SetRasters(Alloc(heap, r.out), source_image, target_image,
                           [image EXCEPT !["target"] = NewBuf(heap)], images)
             /\ pixmap' = [pixmap EXCEPT !["target"] =
                              update_display(TRUE, pixmap["target"],
                                             lists[points["target"]]).pixmap]

\* The canvases live in QScrollAreas (main.py 211-220): setWidget makes the
\* scroll area's viewport their parent, which has no points_updated.
ParentHasPointsUpdated == FALSE

\* hasattr(self.parent(), "points_updated") and the call (main.py 168-169,
\* 178-179, 190-191), then points_updated (main.py 313-315), on the list pts.
PointsUpdated(pts) ==
    IF ParentHasPointsUpdated /\ source_image # None /\ Len(pts) >= MinPoints
    THEN ApplyUpdateMorph(pts, 0)
    ELSE UNCHANGED <<rasterVars, images>>

gifCtl == <<pc, num_frames, loop, i>>

(* ======================= the operations ======================= *)
\* A second canvas that keeps the list it was constructed with.
OwnList(sourceList, ownList) == ownList

\* The list the second canvas is given (main.py 227, 367).
SharedList(sourceList, ownList) == sourceList

Init ==
    /\ lists = [n \in {1, 2} |-> <<>>]
    /\ points = [c \in Canvases |-> IF c = "source" THEN 1 ELSE SharedList(1, 2)]
    /\ selected_point = [c \in Canvases |-> None]
    /\ dragging = [c \in Canvases |-> FALSE]
    /\ heap = <<>>
    /\ source_image = None
    /\ target_image = None
    /\ image = [c \in Canvases |-> None]
    /\ pixmap = [c \in Canvases |-> FALSE]
    /\ pc = "idle"
    /\ num_frames = 0
    /\ loop = FALSE
    /\ i = 0
    /\ images = <<>>
    /\ gif_exit = "none"

\* The morph timer (main.py 282-284) fires update_morph.
UpdateMorph(fault) ==
    /\ fault \in 0..NumTriangles(Points)
    /\ ApplyUpdateMorph(Points, fault)
    /\ gif_exit' = "none"
    /\ UNCHANGED <<editVars, gifCtl>>

\* The update timer of a canvas (main.py 32-34) fires update_display.
UpdateDisplay(c) ==
    /\ image[c] # None
    /\ pixmap' = [pixmap EXCEPT ![c] =
                     update_display(TRUE, pixmap[c], lists[points[c]]).pixmap]
    /\ gif_exit' = "none"
    /\ UNCHANGED <<editVars, heap, source_image, target_image, image, gifCtl, images>>

\* load_image (main.py 289-300) with a file chosen.  When update_display
\* raises inside source_canvas.set_image (main.py 299), line 300 is not
\* reached and the target canvas keeps what it had.
LoadImage(file) ==
    /\ pc = "idle"
    /\ LET h1 == Alloc(heap, file)      si == NewBuf(heap)
           h2 == Alloc(h1, file)        ti == NewBuf(h1)
           h3 == Alloc(h2, h2[si])      sc == NewBuf(h2)
           h4 == Alloc(h3, h3[ti])      tc == NewBuf(h3)
           ds == update_display(TRUE, pixmap["source"], lists[points["source"]])
           dt == update_display(TRUE, pixmap["target"], lists[points["target"]])
       IN  IF ds.raised
           THEN /\ SetRasters(h3, si, ti, [image EXCEPT !["source"] = sc], images)
                /\ UNCHANGED pixmap
           ELSE /\ SetRasters(h4, si, ti,
                              [c \in Canvases |-> IF c = "source" THEN sc ELSE tc],
                              images)
                /\ pixmap' = [c \in Canvases |->
                                 IF c = "source" THEN ds.pixmap ELSE dt.pixmap]
    /\ gif_exit' = "none"
    /\ UNCHANGED <<editVars, gifCtl>>

\* clear_points (main.py 306-307)
ClearPoints ==
    /\ pc = "idle"
    /\ lists' = [lists EXCEPT ![points["source"]] = <<>>]
    /\ gif_exit' = "none"
    /\ UNCHANGED <<points, selected_point, dragging, rasterVars, gifCtl, images>>

\* reset_morph (main.py 309-311)
ResetMorph ==
    /\ pc = "idle"
    /\ LET pts == lists[points["source"]]
       IN  lists' = [lists EXCEPT ![points["source"]] =
                        [j \in 1..Len(pts) |-> MorphPoint(pts[j].source, pts[j].source)]]
    /\ gif_exit' = "none"
    /\ UNCHANGED <<points, selected_point, dragging, rasterVars, gifCtl, images>>

(* ---------------- mouse events on a canvas ---------------- *)
\* Where the model's mouse can be: two corners of the widget, and a
\* place outside it (the pointer leaves the widget during a drag).
MousePositions ==
    {<<0, 0>>, <<WidgetSize, 0>>,
     <<WidgetSize + WidgetSize \div 4, 0 - WidgetSize \div 4>>}

\* mousePressEvent, left button (main.py 152-169); when line 154 raises
\* the handler ends there.
MousePressLeft(c, wp) ==
    LET pts == lists[points[c]]
        pos == get_image_space_pos(c, wp)
        near == Near(c, pts, wp, is_target(c))
    IN  /\ pc = "idle"
        /\ IF PosRaises(c)
           THEN UNCHANGED <<lists, selected_point, dragging, rasterVars, images>>
           ELSE IF near # {}
           THEN /\ selected_point' = [selected_point EXCEPT ![c] = Min(near)]
                /\ dragging' = [dragging EXCEPT ![c] = TRUE]
                /\ UNCHANGED <<lists, rasterVars, images>>
           ELSE /\ ~is_target(c)
                /\ Len(pts) < MaxPoints
                /\ lists' = [lists EXCEPT ![points[c]] = Append(pts, MorphPoint(pos, pos))]
                /\ PointsUpdated(Append(pts, MorphPoint(pos, pos)))
                /\ UNCHANGED <<selected_point, dragging>>
        /\ gif_exit' = "none"
        /\ UNCHANGED <<points, gifCtl>>

\* mousePressEvent, right button (main.py 171-180): the source canvas
\* only.  A press that finds no point, or that raises at line 175, changes
\* nothing.
MousePressRight(c, wp) ==
    LET pts == lists[points[c]]
        near == Near(c, pts, wp, FALSE)
    IN  /\ pc = "idle"
        /\ ~is_target(c)
        /\ ~PosRaises(c)
        /\ near # {}
        /\ lists' = [lists EXCEPT ![points[c]] = Pop(pts, Min(near))]
        /\ PointsUpdated(Pop(pts, Min(near)))
        /\ gif_exit' = "none"
        /\ UNCHANGED <<points, selected_point, dragging, gifCtl>>

\* mouseMoveEvent (main.py 182-191); when line 184 raises, or an index
\* past the end of the list raises IndexError, the handler ends there.
MouseMove(c, wp) ==
    LET pts == lists[points[c]]
        pos == get_image_space_pos(c, wp)
        k == selected_point[c]
    IN  /\ pc = "idle"
        /\ dragging[c] /\ k # None
        /\ IF PosRaises(c) \/ k >= Len(pts)
           THEN UNCHANGED <<lists, rasterVars, images>>
           ELSE LET moved == [pts EXCEPT ![k + 1] =
                                IF is_target(c) THEN MorphPoint(pts[k + 1].source, pos)
                                ELSE MorphPoint(pos, pts[k + 1].target)]
                IN  /\ lists' = [lists EXCEPT ![points[c]] = moved]
                    /\ PointsUpdated(moved)
        /\ gif_exit' = "none"
        /\ UNCHANGED <<points, selected_point, dragging, gifCtl>>

\* mouseReleaseEvent (main.py 193-195)
MouseRelease(c) ==
    /\ pc = "idle"
    /\ dragging[c] \/ selected_point[c] # None
    /\ dragging' = [dragging EXCEPT ![c] = FALSE]
    /\ selected_point' = [selected_point EXCEPT ![c] = None]
    /\ gif_exit' = "none"
    /\ UNCHANGED <<lists, points, rasterVars, gifCtl, images>>

(* ---------------- templates ---------------- *)
Row(sx, sy, tx, ty) == [ok |-> TRUE, v |-> <<sx, sy, tx, ty>>]
\* A line that float() or the unpacking rejects.
BadRow == [ok |-> FALSE, v |-> <<>>]

Zero == <<0, 1>>
Half == <<1, 2>>
One == <<1, 1>>

\* Three corners, the targets moved.
TemplateCorners == <<Row(Zero, Zero, Zero, Zero), Row(One, Zero, Zero, One),
                     Row(Zero, One, One, Zero)>>
\* A line with values outside [0, 1].
TemplateOutside == <<Row(<<3, 2>>, Zero, <<-1, 2>>, One)>>
\* A good line, then a malformed one.
TemplateBroken == <<Row(One, Zero, Zero, Zero), BadRow>>
\* A triangle over a part of the raster, stretched to the whole of it.
TemplateTriangle == <<Row(Zero, Zero, Zero, Zero), Row(Half, Zero, One, Zero),
                      Row(Zero, Half, Zero, One)>>
\* Four points, two triangles, the targets drawn in toward the first corner.
TemplateShrink == <<Row(Zero, Zero, Zero, Zero), Row(One, Zero, Half, Zero),
                    Row(Zero, One, Zero, Half), Row(Half, Half, <<1, 4>>, <<1, 4>>)>>
TemplatePair == <<Row(Zero, Zero, Zero, Zero), Row(One, One, One, Zero)>>
TemplateLine == <<Row(Zero, Zero, Zero, Zero), Row(Half, Half, One, Zero),
                  Row(One, One, Zero, One)>>

EditTemplates == {TemplateCorners, TemplateOutside, TemplateBroken}
MorphTemplates ==
    {TemplateTriangle, TemplateShrink, TemplatePair, TemplateLine}

\* The triangle at which a library call may raise: up to the most
\* triangles a template of the model yields.
MaxFault == 2

\* The rows read before the first malformed one.
RECURSIVE GoodPrefix(_)
GoodPrefix(rows) ==
    IF rows = <<>> \/ ~Head(rows).ok THEN <<>>
    ELSE <<Head(rows)>> \o GoodPrefix(Tail(rows))

\* load_template (main.py 358-367) with a file chosen.  A malformed line
\* raises ValueError inside the loop: the list keeps the lines read so
\* far and line 367 is not reached.
LoadTemplate(file) ==
    LET good == GoodPrefix(file)
        read == [j \in 1..Len(good) |->
                    MorphPoint(QPointF(good[j].v[1], good[j].v[2]),
                               QPointF(good[j].v[3], good[j].v[4]))]
    IN  /\ pc = "idle"
        /\ lists' = [lists EXCEPT ![points["source"]] = read]
        /\ IF Len(good) < Len(file)
           THEN UNCHANGED points
           ELSE points' = [points EXCEPT !["target"] =
                              SharedList(points["source"], points["target"])]
        /\ gif_exit' = "none"
        /\ UNCHANGED <<selected_point, dragging, rasterVars, gifCtl, images>>

(* ---------------- save_gif ---------------- *)
\* save_gif up to the loop (main.py 369-378).  Without an image line 376
\* raises AttributeError.
SaveGifStart(n, lp) ==
    /\ pc = "idle"
    /\ IF image["source"] = None
       THEN /\ gif_exit' = "raised_at_start"
            /\ UNCHANGED gifCtl
       ELSE /\ gif_exit' = "none"
            /\ pc' = "gif"
            /\ num_frames' = n
            /\ loop' = lp
            /\ i' = 0
    /\ UNCHANGED <<editVars, rasterVars, images>>

\* One pass of the loop with the dialog not cancelled (main.py 379-385);
\* the last pass goes on to lines 387-390, where the file dialog opens.
\* An exception that interpolate_image did not catch would end save_gif.
SaveGifStep(fault) ==
    /\ pc = "gif"
    /\ i < num_frames
    /\ fault \in 0..NumTriangles(Points)
    /\ LET t == FrameT(i, num_frames)
           r == interpolate_image(Points, t[1], t[2], fault)
           h1 == IF r.raised THEN heap ELSE Alloc(heap, r.raster)
           b == IF r.raised THEN ExceptReturn(image["source"]) ELSE NewBuf(heap)
           fr == Append(images, [buf |-> b, t |-> t, delaunay |-> r.delaunay,
                                 ok |-> ~r.raised, fault |-> fault])
           last == i + 1 = num_frames
       IN  IF r.raised /\ ~ExceptionCaught
           THEN /\ pc' = "idle"
                /\ num_frames' = 0
                /\ loop' = FALSE
                /\ i' = 0
                /\ SetRasters(heap, source_image, target_image, image, <<>>)
                /\ gif_exit' = "raised_in_loop"
           ELSE /\ SetRasters(h1, source_image, target_image, image,
                              IF last /\ loop THEN fr \o Reverse(fr) ELSE fr)
                /\ pc' = IF last THEN "dialog" ELSE "gif"
                /\ i' = i + 1
                /\ gif_exit' = "none"
                /\ UNCHANGED <<num_frames, loop>>
    /\ UNCHANGED <<editVars, pixmap>>

\* progress.wasCanceled() (main.py 381-382): save_gif returns.
SaveGifCancel ==
    /\ pc = "gif"
    /\ i < num_frames
    /\ pc' = "idle"
    /\ num_frames' = 0
    /\ loop' = FALSE
    /\ i' = 0
    /\ SetRasters(heap, source_image, target_image, image, <<>>)
    /\ gif_exit' = "cancelled"
    /\ UNCHANGED <<editVars, pixmap>>

\* The file dialog closes (main.py 390-392).  Without a file name save_gif
\* returns.  With one, progress.setValue(num_frames) of line 392 lets the
\* event loop run, so the timers may fire before the file is written.
SaveGifDialog(named) ==
    /\ pc = "dialog"
    /\ IF named
       THEN /\ pc' = "save"
            /\ gif_exit' = "none"
            /\ UNCHANGED <<num_frames, loop, i, rasterVars, images>>
       ELSE /\ pc' = "idle"
            /\ num_frames' = 0
            /\ loop' = FALSE
            /\ i' = 0
            /\ SetRasters(heap, source_image, target_image, image, <<>>)
            /\ gif_exit' = "returned"
            /\ UNCHANGED pixmap
    /\ UNCHANGED editVars

\* imageio.mimsave (main.py 393) writes the file, or raises (a path that
\* cannot be written, a name imageio has no writer for): nothing in
\* save_gif catches that.  Either way save_gif is left.
SaveGifWrite(raises) ==
    /\ pc = "save"
    /\ pc' = "idle"
    /\ num_frames' = 0
    /\ loop' = FALSE
    /\ i' = 0
    /\ SetRasters(heap, source_image, target_image, image, <<>>)
    /\ gif_exit' = IF raises THEN "raised_at_save" ELSE "returned"
    /\ UNCHANGED <<editVars, pixmap>>

(* ======================= the specifications ======================= *)
\* An editing session: images and templates are loaded, the points are
\* edited with the mouse and the buttons, the timers fire.
Next ==
    \/ \E file \in EditImages : LoadImage(file)
    \/ \E c \in Canvases, wp \in MousePositions : MousePressLeft(c, wp)
    \/ \E c \in Canvases, wp \in MousePositions : MousePressRight(c, wp)
    \/ \E c \in Canvases, wp \in MousePositions : MouseMove(c, wp)
    \/ \E c \in Canvases : MouseRelease(c)
    \/ ClearPoints
    \/ ResetMorph
    \/ \E file \in EditTemplates : LoadTemplate(file)
    \/ UpdateMorph(0)
    \/ \E c \in Canvases : UpdateDisplay(c)

Spec == Init /\ [][Next]_vars

\* A morph session: an image and a template are loaded, the list is
\* cleared, the timers fire and save_gif runs; a library call inside a try
\* block may raise.
NextMorph ==
    \/ \E file \in ImageFiles : LoadImage(file)
    \/ \E file \in MorphTemplates : LoadTemplate(file)
    \/ \E fault \in 0..MaxFault : UpdateMorph(fault)
    \/ \E c \in Canvases : UpdateDisplay(c)
    \/ ClearPoints
    \/ \E n \in MinFrames..MaxFrames, lp \in BOOLEAN : SaveGifStart(n, lp)
    \/ \E fault \in 0..MaxFault : SaveGifStep(fault)
    \/ SaveGifCancel
    \/ \E named \in BOOLEAN : SaveGifDialog(named)
    \/ \E raises \in BOOLEAN : SaveGifWrite(raises)

SpecMorph == Init /\ [][NextMorph]_vars

(* ======================= the properties ======================= *)
\* The rasters of the frames save_gif has computed so far.
Frames == 1..Len(images)

\* 0 <= r <= 1 for the rational r.
InUnit(r) == 0 <= r[1] /\ r[1] <= r[2]

\* s without its k-th element.
Without(s, k) == [j \in 1..(Len(s) - 1) |-> IF j < k THEN s[j] ELSE s[j + 1]]

\* The frame at tn/td with the skip-th triangle left out: its footprint
\* keeps the seed, the other triangles are warped and composited.
SkippingRaster(pts, img, tn, td, skip) ==
    LET L == LcmOfDens(pts)
        SP == SourcePoints(pts, L)
    IN  Composite(ZerosLike, img, Without(Simplices(SP), skip), Scale(SP, td),
                  InterPoints(pts, L, tn, td), L * td)

\* C1: when save_gif has built its list for N frames, the list holds N
\* entries, or 2N with loop checked; entry i is the frame computed at
\* t = i/(N-1), so the first is at t = 0 and the N-th at t = 1; with loop
\* checked the last N entries are the first N in the reverse order, the
\* t = 1 frame twice in a row at the turn.
C1_FrameList ==
    pc \in {"dialog", "save"} =>
        /\ num_frames >= MinFrames
        /\ Len(images) = IF loop THEN 2 * num_frames ELSE num_frames
        /\ \A k \in 0..(num_frames - 1) :
              /\ images[k + 1].t[1] * (num_frames - 1) = k * images[k + 1].t[2]
              /\ images[k + 1].ok =>
                    heap[images[k + 1].buf] =
                        InterpolatedRaster(Points, heap[image["source"]],
                                           k, num_frames - 1)
        /\ images[1].t[1] = 0
        /\ images[num_frames].t[1] = images[num_frames].t[2]
        /\ loop => /\ \A k \in 1..num_frames :
                         images[num_frames + k] = images[num_frames + 1 - k]
                   /\ images[num_frames + 1] = images[num_frames]

\* C1 witness: a looping list of MaxFrames frames, all of them composited
\* from at least one triangle, is ready to be saved.
C1_Witness ==
    /\ pc = "dialog"
    /\ loop
    /\ num_frames = MaxFrames
    /\ NumTriangles(Points) > 0
    /\ \A k \in Frames : images[k].ok

\* C2: no frame is computed by handing fewer than three points to the
\* triangulator, and update_morph hands it nothing when it has fewer than
\* three points.
C2_NoTriangulationBelowThree ==
    /\ \A k \in Frames : images[k].delaunay >= MinPoints
    /\ Len(Points) < MinPoints => update_morph(Points, 0).delaunay = None

\* C3: a frame interpolated at t = 0 equals the source image at every pixel.
C3_IdentityAtZero ==
    \A k \in Frames :
        (images[k].ok /\ images[k].t[1] = 0) =>
            heap[images[k].buf] = heap[image["source"]]

\* C4: a frame interpolated at t = 1 equals, pixel for pixel, what
\* update_morph displays for the same image and points.
C4_EndpointAgreement ==
    \A k \in Frames :
        (images[k].ok /\ images[k].t[1] = images[k].t[2]) =>
            /\ update_morph(Points, 0).shown
            /\ heap[images[k].buf] = update_morph(Points, 0).out

\* C5: the source image is never written, and every frame is a buffer of
\* its own: not the source image, not the buffer of another entry.
C5_FreshBuffers ==
    /\ image["source"] # None => heap[image["source"]] = heap[source_image]
    /\ \A k \in Frames :
          /\ images[k].buf # image["source"]
          /\ images[k].buf # source_image
          /\ \A j \in Frames : j # k => images[j].buf # images[k].buf

\* C6: a frame whose computation fails does not end save_gif: no exception
\* leaves save_gif from inside its loop, and the one raised before the
\* loop is the missing image, before any frame; the
\* list has one entry per pass of the loop, in the order of the passes; a
\* failed entry is the value of the except branch, and the frames computed
\* after it are what they would be without the failure.
C6_FailureDoesNotAbort ==
    /\ gif_exit # "raised_in_loop"
    /\ gif_exit = "raised_at_start" => image["source"] = None
    /\ pc = "gif" => Len(images) = i /\ i < num_frames
    /\ pc \in {"dialog", "save"} => i = num_frames
    /\ pc \in {"gif", "dialog", "save"} =>
          \A k \in 1..i :
              /\ images[k].t = <<k - 1, num_frames - 1>>
              /\ ~images[k].ok => images[k].buf = image["source"]
              /\ images[k].ok =>
                    heap[images[k].buf] =
                        InterpolatedRaster(Points, heap[image["source"]],
                                           k - 1, num_frames - 1)

\* C6 witness: the list is complete, a frame failed and a later frame was
\* composited.
C6_Witness ==
    /\ pc = "dialog"
    /\ \E j, k \in 1..num_frames :
          /\ j < k
          /\ ~images[j].ok /\ images[j].fault > 0
          /\ images[k].ok /\ NumTriangles(Points) > 1

\* C7: when one triangle of a frame cannot be processed, that triangle
\* alone is skipped: the frame is a new buffer holding the composite of the
\* other triangles.
C7_DegenerateTriangleSkipped ==
    \A k \in Frames :
        images[k].fault > 0 =>
            /\ images[k].buf # image["source"]
            /\ heap[images[k].buf] =
                  SkippingRaster(Points, heap[image["source"]],
                                 images[k].t[1], images[k].t[2], images[k].fault)

\* C8: the two canvases hold one and the same list of points.
C8_SharedList == points["source"] = points["target"]

\* C8 witness: a template of three points was loaded and one of them is
\* being dragged on the target canvas.
C8_Witness ==
    /\ Len(lists[points["target"]]) = Len(TemplateCorners)
    /\ dragging["target"]
    /\ selected_point["target"] # None

\* C9: every coordinate of every point of the list lies in [0, 1].
C9_UnitSquare ==
    \A k \in 1..Len(Points) :
        /\ InUnit(Points[k].source.x) /\ InUnit(Points[k].source.y)
        /\ InUnit(Points[k].target.x) /\ InUnit(Points[k].target.y)

\* C10: while a canvas is dragging, its selected_point is an index of the
\* list.
C10_DragIndexValid ==
    \A c \in Canvases :
        dragging[c] =>
            /\ selected_point[c] # None
            /\ selected_point[c] \in 0..(Len(lists[points[c]]) - 1)

====
